---- MODULE Spec2Model ----
(***************************************************************************)
(* Streaming anomaly-detection core of the vehicle telemetry service:      *)
(* the rule gate (predefined_Rules.py), the packet normaliser (fetch.py)   *)
(* and the background stream worker with its rolling buffer, anomaly       *)
(* ledger and RCA/CAPA latch (main.py).                                    *)
(*                                                                         *)
(* Units.  Sensor readings are floats in the source; here they are         *)
(* integers in the smallest unit the gate's literals need:                 *)
(*   cell voltages, rise rate, variance ratio : 1/100                      *)
(*   gps/wheel delta, average battery temp    : 1/10                       *)
(*   everything else                          : 1                          *)
(***************************************************************************)
EXTENDS Integers, Sequences, FiniteSets, TLC

VARIABLES
    processed_packets,     \* main.py:69   the loaded source list
    anomalies_detected,    \* main.py:70   the anomaly ledger, index -> document
    rolling_buffer,        \* main.py:71   deque(maxlen=300)
    current_packet_index,  \* main.py:72
    stream_active,         \* main.py:73
    rca_capa_triggered,    \* main.py:77   the episode latch
    MD,                    \* main.py:187  the manufacturing database handed to the gate
    pc,                    \* position of packet_stream_worker
    idx,                   \* main.py:199  local of the worker
    packet,                \* main.py:200  local of the worker
    rule_ok,               \* main.py:209  local of the worker
    light_calls,           \* route_query calls made in the current iteration
    light_outcome,         \* how the most recent iteration's light escalation ended
    heavy_count,           \* trigger_rca_capa_analysis calls made by the worker
    heavy_outcome,         \* how the most recent heavy check ended
    low_seen,              \* occupancy was below the trigger since the last heavy call
    ledger_write,          \* whether the iteration's ledger write made a key or replaced one
    agent_calls,           \* agent runs made inside the route_query call just finished
    packets,               \* fetch.py:246  the list stream_and_process replays
    stream_idx,            \* fetch.py:257  idx of stream_and_process
    second_counter,        \* fetch.py:258
    ignition_status,       \* fetch.py:252
    buffer,                \* fetch.py:255  deque(maxlen=BUFFER_SIZE_SECONDS)
    stream_packet,         \* fetch.py:261  packet of stream_and_process
    stream_rule_ok,        \* fetch.py:272  rule_ok of stream_and_process
    stream_pc,             \* position of stream_and_process
    payload,               \* fetch.py:48   the payload of the latest send_buffer_to_llm
    sleep_sec,             \* fetch.py:291  the length of the latest sleep
    user,                  \* fetch.py:17
    manual_requests,       \* POST /rca_capa requests handled
    manual_calls,          \* route_rca_capa calls made by POST /rca_capa
    manual_response,       \* HTTP status of the latest POST /rca_capa
    gate_in,               \* gate harness: the packet under evaluation
    gate_out               \* gate harness: what ruleGate did with it

streamVars == <<packets, stream_idx, second_counter, ignition_status, buffer,
                stream_packet, stream_rule_ok, stream_pc, payload, sleep_sec,
                user>>

apiVars == <<manual_requests, manual_calls, manual_response>>

vars == <<processed_packets, anomalies_detected, rolling_buffer,
          current_packet_index, stream_active, rca_capa_triggered, MD, pc, idx,
          packet, rule_ok, light_calls, light_outcome, ledger_write, agent_calls, heavy_count,
          heavy_outcome, low_seen, gate_in, gate_out, streamVars, apiVars>>

driverVars == <<processed_packets, anomalies_detected, rolling_buffer,
                current_packet_index, stream_active, rca_capa_triggered, pc,
                idx, packet, rule_ok, light_calls, light_outcome, ledger_write, agent_calls, heavy_count,
                heavy_outcome, low_seen>>

gateVars == <<gate_in, gate_out>>

-----------------------------------------------------------------------------
(* Bounds of the model *)

\* iterations of the worker loop that are explored
MaxIter == 303

\* POST /rca_capa requests that are explored
MaxManual == 1

\* fields that may be absent from a packet of the gate harness
MaxAbsent == 1

-----------------------------------------------------------------------------
(* Program constants *)

BUFFER_MAXLEN == 300        \* deque(maxlen=300)
RCA_TRIGGER_SIZE == 20      \* len(rolling_buffer) >= 20

CELL_DELTA_LIMIT == 8       \* 0.08 V
CURRENT_LIMIT_1 == 120
RPM_LIMIT == 7600
INVERTER_TEMP_LIMIT == 56
RISE_RATE_LIMIT == 48       \* 0.48 C/min
VOLTAGE_FLOOR == 370
CURRENT_LIMIT_2 == 125
GPS_DELTA_LIMIT == 22       \* 2.2
VARIANCE_LIMIT == 106       \* 1.06
CYCLE_LIMIT == 950
TEMP_AVG_LIMIT == 335       \* 33.5 C
AMBIENT_LIMIT == 30
LOAD_LIMIT == 220
CURRENT_LIMIT_3 == 122

-----------------------------------------------------------------------------
(* Packets.  A packet is a mapping from the sensor names the gate reads to  *)
(* readings; a name outside its DOMAIN is a key the packet does not carry   *)
(* (the group or the sensor is missing: either lookup raises KeyError).     *)

Fields == {"battery_cell_max_voltage_v", "battery_cell_min_voltage_v",
           "battery_pack_current_a", "motor_rpm", "inverter_temperature_c",
           "battery_temp_rise_rate_c_per_min", "battery_pack_voltage_v",
           "gps_vs_wheel_speed_delta", "wheel_speed_variance_ratio",
           "thermal_cycle_count", "battery_temperature_avg_c",
           "ambient_air_temperature_c", "vehicle_load_estimated_kg"}

\* a reading that sits exactly on the literal the gate compares it with
\* (cell voltages: a pair whose difference does)
OnLimit ==
    [f \in Fields |->
        CASE f = "battery_cell_max_voltage_v" -> 373
          [] f = "battery_cell_min_voltage_v" -> 372
          [] f = "battery_pack_current_a" -> CURRENT_LIMIT_1
          [] f = "motor_rpm" -> RPM_LIMIT
          [] f = "inverter_temperature_c" -> INVERTER_TEMP_LIMIT
          [] f = "battery_temp_rise_rate_c_per_min" -> RISE_RATE_LIMIT
          [] f = "battery_pack_voltage_v" -> VOLTAGE_FLOOR
          [] f = "gps_vs_wheel_speed_delta" -> GPS_DELTA_LIMIT
          [] f = "wheel_speed_variance_ratio" -> VARIANCE_LIMIT
          [] f = "thermal_cycle_count" -> CYCLE_LIMIT
          [] f = "battery_temperature_avg_c" -> TEMP_AVG_LIMIT
          [] f = "ambient_air_temperature_c" -> AMBIENT_LIMIT
          [] OTHER -> LOAD_LIMIT]

\* the same reading moved one unit past the literal, towards stress
\* (cell voltages: 3.74 V max, 3.65 V min, a difference of 0.09 V)
Stressed ==
    [f \in Fields |->
        CASE f = "battery_cell_max_voltage_v" -> 374
          [] f = "battery_cell_min_voltage_v" -> 365
          [] f = "battery_pack_voltage_v" -> VOLTAGE_FLOOR - 1
          [] OTHER -> OnLimit[f] + 1]

\* pack currents: well below every literal, on each of the three, and just
\* above each of them
CurrentVals == {100, CURRENT_LIMIT_1, CURRENT_LIMIT_1 + 1, CURRENT_LIMIT_3,
                CURRENT_LIMIT_3 + 1, CURRENT_LIMIT_2, CURRENT_LIMIT_2 + 1}

\* the pack currents tried on packets that lack a field
SparseCurrentVals == {CURRENT_LIMIT_1, CURRENT_LIMIT_1 + 1, CURRENT_LIMIT_3 + 1,
                      CURRENT_LIMIT_2 + 1}

\* the packet carrying the fields D, those in H stressed, pack current c
MkPacket(D, H, c) ==
    [f \in D |-> IF f = "battery_pack_current_a" THEN c
                 ELSE IF f \in H THEN Stressed[f] ELSE OnLimit[f]]

NoCurrent == Fields \ {"battery_pack_current_a"}

\* the sets of fields a packet of the gate harness may lack: at most MaxAbsent
\* of them, or all of them
AbsentSets ==
    {X \in SUBSET Fields : X = Fields \/ Cardinality(X) <= MaxAbsent}

\* every reading on its limit: no predicate matches
HealthyPkt == MkPacket(Fields, {}, CURRENT_LIMIT_1)

\* pack voltage under the floor with the current above 125 A
AnomalousPkt == MkPacket(Fields, {"battery_pack_voltage_v"}, CURRENT_LIMIT_2 + 1)

\* the same electrical stress, but the packet carries no motor rpm
SparsePkt ==
    MkPacket(Fields \ {"motor_rpm"}, {"battery_pack_voltage_v"}, CURRENT_LIMIT_2 + 1)

\* a packet with no sensor field at all
EmptyPkt == MkPacket({}, {}, CURRENT_LIMIT_1)

\* cell imbalance of 0.09 V with the current just above 120 A
ImbalancePkt ==
    MkPacket(Fields, {"battery_cell_max_voltage_v", "battery_cell_min_voltage_v"},
             CURRENT_LIMIT_1 + 1)

\* every reading on its limit, and no pack current: no lookup reaches the
\* missing key
NoCurrentPkt == MkPacket(NoCurrent, {}, CURRENT_LIMIT_1)

\* a list element that is no JSON object (a bare number); it is written as a
\* one-key function so that it can sit in a list next to the packets
ScalarPkt == [f \in {"json_scalar"} |-> 7]

\* isinstance(p, dict)
IsMapping(p) == "json_scalar" \notin DOMAIN p

\* the source lists the worker is run over (load_packets returns any JSON list)
Sources ==
    { <<>>,
      <<HealthyPkt>>,
      <<HealthyPkt, ScalarPkt>>,
      <<AnomalousPkt>>,
      <<AnomalousPkt, SparsePkt>>,
      <<HealthyPkt, AnomalousPkt, EmptyPkt>>,
      <<ImbalancePkt, NoCurrentPkt, HealthyPkt, AnomalousPkt>> }

-----------------------------------------------------------------------------
(* fetch.py *)

\* a value that is no Decimal is returned as it is; json.load never yields a
\* Decimal, so every reading of a loaded packet takes this branch
convert_decimal(obj) == obj

\* json.loads(json.dumps(packet, default=convert_decimal)): a fresh mapping
\* with the same keys, each value re-read from its JSON text
normalize_packet(p) == [f \in DOMAIN p |-> convert_decimal(p[f])]

-----------------------------------------------------------------------------
(* predefined_Rules.py *)

\* what load_manufacturing_database can return: {} when the file is missing
\* or unreadable, the parsed file otherwise
ManufacturingDatabases == { <<>>, [file |-> "Manufacturing_Database.json"] }

Has(p, f) == f \in DOMAIN p

\* Each predicate is "match", "nomatch" or "KeyError".  Python evaluates the
\* conjuncts left to right and stops at the first false one, so a key is only
\* looked up when every conjunct before it held.

BatteryImbalance(p) ==
    IF ~Has(p, "battery_cell_max_voltage_v") \/ ~Has(p, "battery_cell_min_voltage_v")
    THEN "KeyError"
    ELSE LET cell_delta == p["battery_cell_max_voltage_v"]
                           - p["battery_cell_min_voltage_v"]
         IN  IF ~(cell_delta > CELL_DELTA_LIMIT) THEN "nomatch"
             ELSE IF ~Has(p, "battery_pack_current_a") THEN "KeyError"
             ELSE IF p["battery_pack_current_a"] > CURRENT_LIMIT_1 THEN "match"
             ELSE "nomatch"

\* the second predicate with >= on the motor rpm
ThermalStressInclusive(p) ==
    IF ~Has(p, "motor_rpm") THEN "KeyError"
    ELSE IF ~(p["motor_rpm"] >= RPM_LIMIT) THEN "nomatch"
    ELSE IF ~Has(p, "inverter_temperature_c") THEN "KeyError"
    ELSE IF ~(p["inverter_temperature_c"] > INVERTER_TEMP_LIMIT) THEN "nomatch"
    ELSE IF ~Has(p, "battery_temp_rise_rate_c_per_min") THEN "KeyError"
    ELSE IF p["battery_temp_rise_rate_c_per_min"] > RISE_RATE_LIMIT THEN "match"
    ELSE "nomatch"

ThermalStress(p) ==
    IF ~Has(p, "motor_rpm") THEN "KeyError"
    ELSE IF ~(p["motor_rpm"] > RPM_LIMIT) THEN "nomatch"
    ELSE IF ~Has(p, "inverter_temperature_c") THEN "KeyError"
    ELSE IF ~(p["inverter_temperature_c"] > INVERTER_TEMP_LIMIT) THEN "nomatch"
    ELSE IF ~Has(p, "battery_temp_rise_rate_c_per_min") THEN "KeyError"
    ELSE IF p["battery_temp_rise_rate_c_per_min"] > RISE_RATE_LIMIT THEN "match"
    ELSE "nomatch"

\* the third predicate with "or" in place of "and"
ElectricalStressEither(p) ==
    IF ~Has(p, "battery_pack_voltage_v") THEN "KeyError"
    ELSE IF p["battery_pack_voltage_v"] < VOLTAGE_FLOOR THEN "match"
    ELSE IF ~Has(p, "battery_pack_current_a") THEN "KeyError"
    ELSE IF p["battery_pack_current_a"] > CURRENT_LIMIT_2 THEN "match"
    ELSE "nomatch"

ElectricalStress(p) ==
    IF ~Has(p, "battery_pack_voltage_v") THEN "KeyError"
    ELSE IF ~(p["battery_pack_voltage_v"] < VOLTAGE_FLOOR) THEN "nomatch"
    ELSE IF ~Has(p, "battery_pack_current_a") THEN "KeyError"
    ELSE IF p["battery_pack_current_a"] > CURRENT_LIMIT_2 THEN "match"
    ELSE "nomatch"

SignalConsistency(p) ==
    IF ~Has(p, "gps_vs_wheel_speed_delta") THEN "KeyError"
    ELSE IF ~(p["gps_vs_wheel_speed_delta"] > GPS_DELTA_LIMIT) THEN "nomatch"
    ELSE IF ~Has(p, "wheel_speed_variance_ratio") THEN "KeyError"
    ELSE IF p["wheel_speed_variance_ratio"] > VARIANCE_LIMIT THEN "match"
    ELSE "nomatch"

ThermalAging(p) ==
    IF ~Has(p, "thermal_cycle_count") THEN "KeyError"
    ELSE IF ~(p["thermal_cycle_count"] > CYCLE_LIMIT) THEN "nomatch"
    ELSE IF ~Has(p, "battery_temperature_avg_c") THEN "KeyError"
    ELSE IF p["battery_temperature_avg_c"] > TEMP_AVG_LIMIT THEN "match"
    ELSE "nomatch"

EnvironmentalLoad(p) ==
    IF ~Has(p, "ambient_air_temperature_c") THEN "KeyError"
    ELSE IF ~(p["ambient_air_temperature_c"] > AMBIENT_LIMIT) THEN "nomatch"
    ELSE IF ~Has(p, "vehicle_load_estimated_kg") THEN "KeyError"
    ELSE IF ~(p["vehicle_load_estimated_kg"] > LOAD_LIMIT) THEN "nomatch"
    ELSE IF ~Has(p, "battery_pack_current_a") THEN "KeyError"
    ELSE IF p["battery_pack_current_a"] > CURRENT_LIMIT_3 THEN "match"
    ELSE "nomatch"

\* the six predicates in the order ruleGate evaluates them
Predicate(i, p) ==
    CASE i = 1 -> BatteryImbalance(p)
      [] i = 2 -> ThermalStress(p)
      [] i = 3 -> ElectricalStress(p)
      [] i = 4 -> SignalConsistency(p)
      [] i = 5 -> ThermalAging(p)
      [] OTHER -> EnvironmentalLoad(p)

NumPredicates == 6

\* ruleGate(packet, MD): "True" (healthy), "False" (anomaly) or "KeyError"
\* (the lookup of an absent key raised).  The first predicate that does not
\* fall through decides; MD is never read.
\* a gate that returns True after the fifth predicate, never reaching the sixth
RECURSIVE GateFromForgetsLast(_, _)
GateFromForgetsLast(i, p) ==
    IF i >= NumPredicates THEN "True"
    ELSE LET r == Predicate(i, p)
         IN  IF r = "match" THEN "False"
             ELSE IF r = "KeyError" THEN "KeyError"
             ELSE GateFromForgetsLast(i + 1, p)

RECURSIVE GateFrom(_, _)
GateFrom(i, p) ==
    IF i > NumPredicates THEN "True"
    ELSE LET r == Predicate(i, p)
         IN  IF r = "match" THEN "False"
             ELSE IF r = "KeyError" THEN "KeyError"
             ELSE GateFrom(i + 1, p)

\* indexing a value that is no dict with a string raises TypeError
ruleGate(p, md) == IF IsMapping(p) THEN GateFrom(1, p) ELSE "TypeError"

-----------------------------------------------------------------------------
(* fetch.py: send_buffer_to_llm and the constants of stream_and_process *)

BUFFER_SIZE_SECONDS == 300      \* 5 * 60
HIGH_IGNITION_SLEEP_SEC == 1
LOW_IGNITION_SLEEP_SEC == 2700  \* 45 * 60

\* a handle on the deque itself instead of a copy of it
ListAlias(buf) == [live |-> TRUE, items |-> <<>>]

\* list(buffer): a new list holding the deque's items as they are now
ListCopy(buf) == [live |-> FALSE, items |-> buf]

\* the payload built at the top of send_buffer_to_llm(buffer, second_index)
BuildPayload(buf, second_index) ==
    [failure_second_index |-> second_index,
     buffer_size |-> Len(buf),
     data |-> ListCopy(buf)]

\* no call of send_buffer_to_llm has been made
NoPayload == [failure_second_index |-> 0, buffer_size |-> 0, data |-> ListCopy(<<>>)]

-----------------------------------------------------------------------------
(* main.py: packet_stream_worker *)

\* a deque without maxlen
DequeAppendUnbounded(buf, x, n) == Append(buf, x)

\* appendleft in place of append: the newest item goes to the front
DequeAppendLeft(buf, x, n) ==
    IF Len(buf) >= n THEN <<x>> \o SubSeq(buf, 1, Len(buf) - 1)
    ELSE <<x>> \o buf

\* a deque that makes room at the wrong end: the newest item is dropped
DequeAppendDropsNewest(buf, x, n) ==
    IF Len(buf) >= n THEN Append(SubSeq(buf, 1, Len(buf) - 1), x)
    ELSE Append(buf, x)

\* deque(maxlen=n).append(x): x goes to the right end; a deque already holding
\* n items drops its leftmost one
DequeAppend(buf, x, n) ==
    IF Len(buf) >= n THEN Append(SubSeq(buf, 2, Len(buf)), x)
    ELSE Append(buf, x)

\* the call of ruleGate without its try/except: a KeyError leaves the loop
CheckRulesUnguarded(p, md) ==
    LET r == ruleGate(p, md)
    IN  [rule_ok |-> (r # "False"), escaped |-> (r \in {"KeyError", "TypeError"})]

\* try: rule_ok = ruleGate(packet, MD)  except Exception: rule_ok = True
CheckRules(p, md) ==
    LET r == ruleGate(p, md)
    IN  [rule_ok |-> (r # "False"), escaped |-> FALSE]

\* the branch on the verdict lost: no packet is ever escalated
NextAfterGateNeverEscalates(ok) == "sleep"

\* if not rule_ok: ... ; otherwise straight on to the sleep
NextAfterGate(ok) == IF ~ok THEN "escalate" ELSE "sleep"

\* agents_final.py route_query on the worker's query (it contains "check"):
\* the maintenance agent is run; only if that raises, the diagnostic agent is
\* run once, and what that raises leaves route_query
RouteQueryRuns ==
    { [calls |-> 1, raised |-> FALSE],
      [calls |-> 2, raised |-> FALSE],
      [calls |-> 2, raised |-> TRUE] }

\* how the body of the light escalation's try block can end: route_query (or
\* the parsing of its response) raised, the parsed severity summary carried a
\* warning, or it carried none
LightOutcomes == {"raised", "warning", "normal"}

\* the document stored under anomalies_detected[idx]
AnomalyDocument(i) == [packet_index |-> i, vehicle_id |-> "default"]

\* a ledger that takes an entry whatever the analysis said
LedgerAfterEveryOutcome(ledger, i, o) ==
    IF o # "raised"
    THEN [k \in DOMAIN ledger \cup {i} |->
             IF k = i THEN AnomalyDocument(i) ELSE ledger[k]]
    ELSE ledger

\* the ledger after the try block of the light escalation ended with outcome o
LedgerAfter(ledger, i, o) ==
    IF o = "warning"
    THEN [k \in DOMAIN ledger \cup {i} |->
             IF k = i THEN AnomalyDocument(i) ELSE ledger[k]]
    ELSE ledger

\* the light escalation without its except clause
LightEscapesUncaught(o) == o = "raised"

\* what anomalies_detected[idx] = anomaly_document does to the ledger: nothing
\* when the line is not reached, a new key, or a fresh document in place of
\* the one already stored under the key
WriteKind(ledger, i, o) ==
    IF o # "warning" THEN "none"
    ELSE IF i \in DOMAIN ledger THEN "overwrite" ELSE "new"

\* except Exception: pass  -- nothing raised inside the try block leaves it
LightEscapes(o) == FALSE

\* how trigger_rca_capa_analysis can end inside: route_rca_capa (or the
\* handling of its result) raised, or it ran to the end
HeavyOutcomes == {"raised", "ok"}

\* trigger_rca_capa_analysis swallows every exception, and so does the worker
HeavyEscapes(o) == FALSE

\* the trigger without the latch in its condition
ShouldTriggerRcaIgnoringLatch(occupancy, latch) ==
    occupancy >= RCA_TRIGGER_SIZE

\* the trigger with > in place of >=
ShouldTriggerRcaStrict(occupancy, latch) ==
    occupancy > RCA_TRIGGER_SIZE /\ ~latch

\* a trigger that waits for an anomalous packet
ShouldTriggerRcaOnAnomaly(occupancy, latch) ==
    occupancy >= RCA_TRIGGER_SIZE /\ ~latch /\ ~rule_ok

\* if len(rolling_buffer) >= 20 and not rca_capa_triggered
ShouldTriggerRca(occupancy, latch) ==
    occupancy >= RCA_TRIGGER_SIZE /\ ~latch

\* a latch that is given back when the call failed
LatchRolledBackOnFailure(o) == o # "raised"

\* rca_capa_triggered = True comes before the call, and the except clause
\* after the call does not assign it
LatchAfterCall(o) == TRUE

\* a reset that does not look at the occupancy
ShouldResetLatchAlways(occupancy) == TRUE

\* if len(rolling_buffer) < 20
ShouldResetLatch(occupancy) == occupancy < RCA_TRIGGER_SIZE

\* an index that starts the replay at the second packet
CyclicIndexOffByOne(i, n) == (i + 1) % n

\* idx = current_packet_index % len(processed_packets)
CyclicIndex(i, n) == i % n

\* no POST /rca_capa has been received
ApiIdle ==
    /\ manual_requests = 0
    /\ manual_calls = 0
    /\ manual_response = "none"

\* stream_and_process has not been started
StreamIdle ==
    /\ packets = <<>>
    /\ stream_idx = 0
    /\ second_counter = 0
    /\ ignition_status = 1
    /\ buffer = <<>>
    /\ stream_packet = <<>>
    /\ stream_rule_ok = TRUE
    /\ stream_pc = "idle"
    /\ payload = NoPayload
    /\ sleep_sec = 0
    /\ user = TRUE

Init ==
    /\ processed_packets \in Sources
    /\ anomalies_detected = <<>>
    /\ rolling_buffer = <<>>
    /\ current_packet_index = 0
    /\ stream_active = FALSE
    /\ rca_capa_triggered = FALSE
    /\ MD = <<>>
    /\ pc = "idle"
    /\ idx = 0
    /\ packet = <<>>
    /\ rule_ok = TRUE
    /\ light_calls = 0
    /\ light_outcome = "none"
    /\ heavy_count = 0
    /\ heavy_outcome = "none"
    /\ low_seen = TRUE
    /\ ledger_write = "none"
    /\ agent_calls = 0
    /\ ApiIdle
    /\ gate_in = <<>>
    /\ gate_out = "none"
    /\ StreamIdle

\* the thread starts: return at once on an empty list, else mark the stream
\* active and load the manufacturing database
StartWorker ==
    /\ pc = "idle"
    /\ IF processed_packets = <<>>
       THEN /\ pc' = "returned"
            /\ UNCHANGED <<stream_active, MD>>
       ELSE /\ stream_active' = TRUE
            /\ MD' \in ManufacturingDatabases
            /\ pc' = "fetch"
    /\ UNCHANGED <<processed_packets, anomalies_detected, rolling_buffer,
                   current_packet_index, rca_capa_triggered, idx, packet,
                   rule_ok, light_calls, light_outcome, ledger_write, agent_calls, heavy_count,
                   heavy_outcome, low_seen, gate_in, gate_out, streamVars, apiVars>>

\* while stream_active: take the next packet cyclically and normalise it
Fetch ==
    /\ pc = "fetch"
    /\ stream_active
    /\ current_packet_index < MaxIter
    /\ idx' = CyclicIndex(current_packet_index, Len(processed_packets))
    /\ packet' = normalize_packet(processed_packets[idx' + 1])
    /\ current_packet_index' = current_packet_index + 1
    /\ light_calls' = 0
    /\ pc' = "append"
    /\ UNCHANGED <<processed_packets, anomalies_detected, rolling_buffer,
                   stream_active, rca_capa_triggered, MD, rule_ok,
                   light_outcome, ledger_write, agent_calls, heavy_count, heavy_outcome, low_seen,
                   gate_in, gate_out, streamVars, apiVars>>

\* rolling_buffer.append(packet)
AppendPacket ==
    /\ pc = "append"
    /\ rolling_buffer' = DequeAppend(rolling_buffer, packet, BUFFER_MAXLEN)
    /\ low_seen' = (low_seen \/ Len(rolling_buffer') < RCA_TRIGGER_SIZE)
    /\ pc' = "gate"
    /\ UNCHANGED <<processed_packets, anomalies_detected, current_packet_index,
                   stream_active, rca_capa_triggered, MD, idx, packet, rule_ok,
                   light_calls, light_outcome, ledger_write, agent_calls, heavy_count, heavy_outcome,
                   gate_in, gate_out, streamVars, apiVars>>

\* the guarded call of ruleGate and the branch on its verdict
EvaluateGate ==
    /\ pc = "gate"
    /\ LET r == CheckRules(packet, MD)
       IN  /\ rule_ok' = r.rule_ok
           /\ pc' = IF r.escaped THEN "dead" ELSE NextAfterGate(r.rule_ok)
    /\ light_outcome' = "none"
    /\ ledger_write' = "none"
    /\ UNCHANGED <<processed_packets, anomalies_detected, rolling_buffer,
                   current_packet_index, stream_active, rca_capa_triggered, MD,
                   idx, packet, light_calls, agent_calls, heavy_count, heavy_outcome,
                   low_seen, gate_in, gate_out, streamVars, apiVars>>

\* if not rule_ok: the light escalation, run to completion inside the loop
LightEscalation ==
    /\ pc = "escalate"
    /\ \E r \in RouteQueryRuns, o \in LightOutcomes :
          /\ r.raised => o = "raised"
          /\ agent_calls' = r.calls
          /\ light_outcome' = o
          /\ anomalies_detected' = LedgerAfter(anomalies_detected, idx, o)
          /\ ledger_write' = WriteKind(anomalies_detected, idx, o)
          /\ pc' = IF o = "raised" /\ LightEscapes(o) THEN "dead" ELSE "sleep"
    /\ light_calls' = light_calls + 1
    /\ UNCHANGED <<processed_packets, rolling_buffer, current_packet_index,
                   stream_active, rca_capa_triggered, MD, idx, packet, rule_ok,
                   heavy_count, heavy_outcome, low_seen, gate_in, gate_out, streamVars, apiVars>>

\* a sleep that also stops the stream
SleepClearsStreamActive ==
    /\ pc = "sleep"
    /\ pc' = "heavy"
    /\ agent_calls' = 0
    /\ stream_active' = FALSE
    /\ UNCHANGED <<processed_packets, anomalies_detected, rolling_buffer,
                   current_packet_index, rca_capa_triggered, MD,
                   idx, packet, rule_ok, light_calls, light_outcome, ledger_write,
                   heavy_count, heavy_outcome, low_seen, gate_in, gate_out,
                   streamVars, apiVars>>

\* time.sleep(1); the result of route_query is not used past this point
Sleep ==
    /\ pc = "sleep"
    /\ pc' = "heavy"
    /\ agent_calls' = 0
    /\ UNCHANGED <<processed_packets, anomalies_detected, rolling_buffer,
                   current_packet_index, stream_active, rca_capa_triggered, MD,
                   idx, packet, rule_ok, light_calls, light_outcome, ledger_write,
                   heavy_count, heavy_outcome, low_seen, gate_in, gate_out,
                   streamVars, apiVars>>

\* the RCA/CAPA trigger and the reset of its latch, at the end of the iteration
HeavyCheck ==
    /\ pc = "heavy"
    /\ LET occ == Len(rolling_buffer)
           fire == ShouldTriggerRca(occ, rca_capa_triggered)
       IN  /\ \E o \in IF fire THEN HeavyOutcomes ELSE {"none"} :
                 /\ heavy_outcome' = o
                 /\ pc' = IF o = "raised" /\ HeavyEscapes(o) THEN "dead" ELSE "fetch"
                 /\ rca_capa_triggered' =
                       IF ShouldResetLatch(occ) THEN FALSE
                       ELSE IF fire THEN LatchAfterCall(o) ELSE rca_capa_triggered
           /\ heavy_count' = IF fire THEN heavy_count + 1 ELSE heavy_count
           /\ low_seen' = IF fire THEN FALSE ELSE low_seen
    /\ UNCHANGED <<processed_packets, anomalies_detected, rolling_buffer,
                   current_packet_index, stream_active, MD, idx, packet,
                   rule_ok, light_calls, light_outcome, ledger_write,
                   agent_calls, gate_in, gate_out, streamVars, apiVars>>

Next ==
    \/ StartWorker
    \/ Fetch
    \/ AppendPacket
    \/ EvaluateGate
    \/ LightEscalation
    \/ Sleep
    \/ HeavyCheck

Spec == Init /\ [][Next]_vars

-----------------------------------------------------------------------------
(* main.py: POST /rca_capa, handled while the worker runs. *)

\* a handler that also sets the worker's latch
ManualRcaCapaSetsLatch ==
    /\ manual_requests < MaxManual
    /\ manual_requests' = manual_requests + 1
    /\ IF ~stream_active \/ processed_packets = <<>>
       THEN /\ manual_response' = "503"
            /\ UNCHANGED <<manual_calls, rca_capa_triggered>>
       ELSE /\ manual_calls' = manual_calls + 1
            /\ rca_capa_triggered' = TRUE
            /\ \E o \in HeavyOutcomes :
                  manual_response' = IF o = "raised" THEN "500" ELSE "200"
    /\ UNCHANGED <<processed_packets, anomalies_detected, rolling_buffer,
                   current_packet_index, stream_active, MD, pc, idx, packet,
                   rule_ok, light_calls, light_outcome, ledger_write,
                   agent_calls, heavy_count, heavy_outcome, low_seen,
                   gateVars, streamVars>>

\* trigger_rca_capa(): 503 when the stream is not active or no packets are
\* loaded; otherwise route_rca_capa is called on a copy of the buffer and the
\* answer is parsed and stored in MongoDB: 200, or 500 when any of that raised.
\* The handler reads the worker's globals and assigns none of them.
ManualRcaCapa ==
    /\ manual_requests < MaxManual
    /\ manual_requests' = manual_requests + 1
    /\ IF ~stream_active \/ processed_packets = <<>>
       THEN /\ manual_response' = "503"
            /\ UNCHANGED manual_calls
       ELSE /\ manual_calls' = manual_calls + 1
            /\ \E o \in HeavyOutcomes :
                  manual_response' = IF o = "raised" THEN "500" ELSE "200"
    /\ UNCHANGED <<driverVars, MD, gateVars, streamVars>>

\* the sources the service is run over when requests are explored
ApiSources == { <<>>, <<AnomalousPkt, SparsePkt>> }

ApiInit == Init /\ processed_packets \in ApiSources

ApiNext == Next \/ ManualRcaCapa

ApiSpec == ApiInit /\ [][ApiNext]_vars

-----------------------------------------------------------------------------
(* The rule gate on its own: one packet is drawn, ruleGate is applied to it. *)

GateInit ==
    /\ processed_packets = <<>>
    /\ anomalies_detected = <<>>
    /\ rolling_buffer = <<>>
    /\ current_packet_index = 0
    /\ stream_active = FALSE
    /\ rca_capa_triggered = FALSE
    /\ MD \in ManufacturingDatabases
    /\ pc = "idle"
    /\ idx = 0
    /\ packet = <<>>
    /\ rule_ok = TRUE
    /\ light_calls = 0
    /\ light_outcome = "none"
    /\ heavy_count = 0
    /\ heavy_outcome = "none"
    /\ low_seen = TRUE
    /\ ledger_write = "none"
    /\ agent_calls = 0
    /\ ApiIdle
    /\ StreamIdle
    /\ \E A \in AbsentSets :
          \E H \in SUBSET ((Fields \ A) \cap NoCurrent) :
             \E c \in IF "battery_pack_current_a" \in A THEN {CURRENT_LIMIT_1}
                      ELSE IF A = {} THEN CurrentVals
                      ELSE SparseCurrentVals :
                gate_in = MkPacket(Fields \ A, H, c)
    /\ gate_out = "none"

\* rule_ok = ruleGate(packet, MD), as every caller makes the call
GateEval ==
    /\ gate_out = "none"
    /\ gate_out' = ruleGate(normalize_packet(gate_in), MD)
    /\ UNCHANGED <<driverVars, MD, gate_in, streamVars, apiVars>>

GateNext == GateEval

GateSpec == GateInit /\ [][GateNext]_vars

-----------------------------------------------------------------------------
(* fetch.py: stream_and_process (temp.py runs the same loop). *)

\* packet p with operational_context.ignition_status set to v
WithIgnition(p, v) ==
    [f \in DOMAIN p \cup {"ignition_status"} |->
        IF f = "ignition_status" THEN v ELSE p[f]]

\* the lists load_packets(FILE_NAME) can hand to the loop; not every packet
\* carries an ignition indicator
StreamSources ==
    { <<>>,
      <<WithIgnition(HealthyPkt, 0)>>,
      <<AnomalousPkt, WithIgnition(HealthyPkt, 1)>>,
      <<WithIgnition(HealthyPkt, 1), WithIgnition(AnomalousPkt, 0), HealthyPkt>>,
      <<HealthyPkt, WithIgnition(AnomalousPkt, 0), WithIgnition(SparsePkt, 1),
        EmptyPkt>> }

\* def get_initial_ignition_status(): return 1
get_initial_ignition_status == 1

\* packet.get("operational_context", {}).get("ignition_status", ignition_status)
IgnitionOf(p, previous) ==
    IF Has(p, "ignition_status") THEN p["ignition_status"] ELSE previous

\* a driver that never leaves the short delay
SleepSecondsAlwaysActive(ign) == HIGH_IGNITION_SLEEP_SEC

\* HIGH_IGNITION_SLEEP_SEC if ignition_status == 1 else LOW_IGNITION_SLEEP_SEC
SleepSeconds(ign) ==
    IF ign = 1 THEN HIGH_IGNITION_SLEEP_SEC ELSE LOW_IGNITION_SLEEP_SEC

\* an index that steps over every other packet
NextIndexSkipsOne(i, n) == (i + 2) % n

\* idx = (idx + 1) % total_packets
NextIndex(i, n) == (i + 1) % n

StreamInit ==
    /\ processed_packets = <<>>
    /\ anomalies_detected = <<>>
    /\ rolling_buffer = <<>>
    /\ current_packet_index = 0
    /\ stream_active = FALSE
    /\ rca_capa_triggered = FALSE
    /\ MD = <<>>
    /\ pc = "idle"
    /\ idx = 0
    /\ packet = <<>>
    /\ rule_ok = TRUE
    /\ light_calls = 0
    /\ light_outcome = "none"
    /\ heavy_count = 0
    /\ heavy_outcome = "none"
    /\ low_seen = TRUE
    /\ ledger_write = "none"
    /\ agent_calls = 0
    /\ ApiIdle
    /\ gate_in = <<>>
    /\ gate_out = "none"
    /\ packets = <<>>
    /\ stream_idx = 0
    /\ second_counter = 0
    /\ ignition_status = 1
    /\ buffer = <<>>
    /\ stream_packet = <<>>
    /\ stream_rule_ok = TRUE
    /\ stream_pc = "start"
    /\ payload = NoPayload
    /\ sleep_sec = 0
    /\ user = TRUE

\* if not user: return; load the packets and the manufacturing database, take
\* the initial ignition status, make the empty deque
StreamStart ==
    /\ stream_pc = "start"
    /\ IF ~user
       THEN /\ stream_pc' = "returned"
            /\ UNCHANGED <<packets, MD, ignition_status>>
       ELSE /\ packets' \in StreamSources
            /\ MD' \in ManufacturingDatabases
            /\ ignition_status' = get_initial_ignition_status
            /\ stream_pc' = "fetch"
    /\ UNCHANGED <<driverVars, gateVars, apiVars, stream_idx, second_counter, buffer,
                   stream_packet, stream_rule_ok, payload, sleep_sec, user>>

\* while user: normalise packets[idx], step idx cyclically, count the second,
\* take the ignition status; packets[0] of an empty list raises IndexError
StreamFetch ==
    /\ stream_pc = "fetch"
    /\ user
    /\ second_counter < MaxIter
    /\ IF packets = <<>>
       THEN /\ stream_pc' = "dead"
            /\ UNCHANGED <<stream_idx, second_counter, ignition_status,
                           stream_packet>>
       ELSE /\ stream_packet' = normalize_packet(packets[stream_idx + 1])
            /\ stream_idx' = NextIndex(stream_idx, Len(packets))
            /\ second_counter' = second_counter + 1
            /\ ignition_status' = IgnitionOf(stream_packet', ignition_status)
            /\ stream_pc' = "append"
    /\ UNCHANGED <<driverVars, gateVars, apiVars, MD, packets, buffer, stream_rule_ok,
                   payload, sleep_sec, user>>

\* buffer.append(packet)
StreamAppend ==
    /\ stream_pc = "append"
    /\ buffer' = DequeAppend(buffer, stream_packet, BUFFER_SIZE_SECONDS)
    /\ stream_pc' = "gate"
    /\ UNCHANGED <<driverVars, gateVars, apiVars, MD, packets, stream_idx, second_counter,
                   ignition_status, stream_packet, stream_rule_ok, payload,
                   sleep_sec, user>>

\* the guarded call of ruleGate and the branch on its verdict
StreamGate ==
    /\ stream_pc = "gate"
    /\ LET r == CheckRules(stream_packet, MD)
       IN  /\ stream_rule_ok' = r.rule_ok
           /\ stream_pc' = IF r.escaped THEN "dead" ELSE NextAfterGate(r.rule_ok)
    /\ UNCHANGED <<driverVars, gateVars, apiVars, MD, packets, stream_idx, second_counter,
                   ignition_status, buffer, stream_packet, payload, sleep_sec,
                   user>>

\* asyncio.run(send_buffer_to_llm(buffer, second_counter)): the payload is
\* built, the agent is called; the function returns a status record whatever
\* happens, and the caller catches what asyncio.run itself may raise
StreamEscalate ==
    /\ stream_pc = "escalate"
    /\ payload' = BuildPayload(buffer, second_counter)
    /\ stream_pc' = "sleep"
    /\ UNCHANGED <<driverVars, gateVars, apiVars, MD, packets, stream_idx, second_counter,
                   ignition_status, buffer, stream_packet, stream_rule_ok,
                   sleep_sec, user>>

\* time.sleep(...) with the delay of the ignition status in effect
StreamSleep ==
    /\ stream_pc = "sleep"
    /\ sleep_sec' = SleepSeconds(ignition_status)
    /\ stream_pc' = "fetch"
    /\ UNCHANGED <<driverVars, gateVars, apiVars, MD, packets, stream_idx, second_counter,
                   ignition_status, buffer, stream_packet, stream_rule_ok,
                   payload, user>>

StreamNext ==
    \/ StreamStart
    \/ StreamFetch
    \/ StreamAppend
    \/ StreamGate
    \/ StreamEscalate
    \/ StreamSleep

StreamSpec == StreamInit /\ [][StreamNext]_vars

\* the loop is the only thread of the program: whenever it has a next step it
\* takes it; the call into the agent and the sleep are taken to return
FairStreamSpec == StreamSpec /\ WF_vars(StreamNext)

-----------------------------------------------------------------------------
(* The six predicates as the design states them, for the properties below. *)

\* the fields predicate i needs
PredicateFields(i) ==
    CASE i = 1 -> {"battery_cell_max_voltage_v", "battery_cell_min_voltage_v",
                   "battery_pack_current_a"}
      [] i = 2 -> {"motor_rpm", "inverter_temperature_c",
                   "battery_temp_rise_rate_c_per_min"}
      [] i = 3 -> {"battery_pack_voltage_v", "battery_pack_current_a"}
      [] i = 4 -> {"gps_vs_wheel_speed_delta", "wheel_speed_variance_ratio"}
      [] i = 5 -> {"thermal_cycle_count", "battery_temperature_avg_c"}
      [] OTHER -> {"ambient_air_temperature_c", "vehicle_load_estimated_kg",
                   "battery_pack_current_a"}

\* the truth values of predicate i's conditions on a packet carrying its fields
Conditions(i, p) ==
    CASE i = 1 -> {p["battery_cell_max_voltage_v"] - p["battery_cell_min_voltage_v"]
                      > CELL_DELTA_LIMIT,
                   p["battery_pack_current_a"] > CURRENT_LIMIT_1}
      [] i = 2 -> {p["motor_rpm"] > RPM_LIMIT,
                   p["inverter_temperature_c"] > INVERTER_TEMP_LIMIT,
                   p["battery_temp_rise_rate_c_per_min"] > RISE_RATE_LIMIT}
      [] i = 3 -> {p["battery_pack_voltage_v"] < VOLTAGE_FLOOR,
                   p["battery_pack_current_a"] > CURRENT_LIMIT_2}
      [] i = 4 -> {p["gps_vs_wheel_speed_delta"] > GPS_DELTA_LIMIT,
                   p["wheel_speed_variance_ratio"] > VARIANCE_LIMIT}
      [] i = 5 -> {p["thermal_cycle_count"] > CYCLE_LIMIT,
                   p["battery_temperature_avg_c"] > TEMP_AVG_LIMIT}
      [] OTHER -> {p["ambient_air_temperature_c"] > AMBIENT_LIMIT,
                   p["vehicle_load_estimated_kg"] > LOAD_LIMIT,
                   p["battery_pack_current_a"] > CURRENT_LIMIT_3}

Lacks(i, p) == ~(PredicateFields(i) \subseteq DOMAIN p)

Satisfies(i, p) == ~Lacks(i, p) /\ Conditions(i, p) = {TRUE}

SomeConditionFalse(i, p) == FALSE \in Conditions(i, p)

-----------------------------------------------------------------------------
(* Properties *)

\* packets appended so far
Appended == IF pc = "append" THEN current_packet_index - 1 ELSE current_packet_index

\* C1: the rolling buffer never holds more than its capacity, and after n
\* appends it holds exactly the last min(n, capacity) appended packets, oldest
\* first (the i-th appended packet is the source's packet i mod its length).
C1_BufferIsLastN ==
    LET n == Appended
        m == IF n < BUFFER_MAXLEN THEN n ELSE BUFFER_MAXLEN
    IN  /\ Len(rolling_buffer) <= BUFFER_MAXLEN
        /\ Len(rolling_buffer) = m
        /\ \A k \in 1..m :
              rolling_buffer[k] =
                 processed_packets[((n - m + k - 1) % Len(processed_packets)) + 1]

\* more appends than the capacity, over a source of three different packets
C1_Witness ==
    /\ Appended > BUFFER_MAXLEN + 1
    /\ Len(rolling_buffer) = BUFFER_MAXLEN
    /\ Len(processed_packets) = 3
    /\ rolling_buffer[1] # rolling_buffer[2]

\* C2: a heavy escalation is only made when occupancy has been below the
\* trigger size in some state since the previous one (or since the start): at
\* most one per contiguous interval of occupancy at or above the trigger.
C2_HeavyOncePerEpisode == [][heavy_count' # heavy_count => low_seen]_vars

\* one heavy escalation made, then five more end-of-iteration checks at an
\* occupancy of 20 or more
C2_Witness ==
    /\ heavy_count = 1
    /\ ~low_seen
    /\ pc = "fetch"
    /\ Len(rolling_buffer) >= RCA_TRIGGER_SIZE + 5

\* C3: at the end of every iteration the latch is set exactly when occupancy
\* is at or above the trigger size, and it is only ever set by a check that
\* made the heavy escalation.
C3_LatchTracksOccupancy ==
    pc = "fetch" =>
       /\ rca_capa_triggered <=> (Len(rolling_buffer) >= RCA_TRIGGER_SIZE)
       /\ rca_capa_triggered => heavy_count >= 1

\* the end of the iteration whose check saw occupancy reach the trigger size
C3_Witness ==
    /\ pc = "fetch"
    /\ Len(rolling_buffer) = RCA_TRIGGER_SIZE
    /\ rca_capa_triggered
    /\ heavy_outcome # "none"

\* C5: once the gate has been evaluated for a packet, and until the next
\* packet is fetched, the light escalation has been invoked exactly once if
\* ruleGate returned False for it and not at all otherwise.
C5_LightOncePerAnomaly ==
    /\ pc \in {"append", "gate", "escalate"} => light_calls = 0
    /\ (pc \in {"sleep", "heavy", "fetch"} /\ current_packet_index > 0) =>
          light_calls = IF ruleGate(packet, MD) = "False" THEN 1 ELSE 0

\* an anomalous packet about to be slept on, escalated once
C5_Witness ==
    /\ pc = "sleep"
    /\ ruleGate(packet, MD) = "False"
    /\ light_calls = 1

\* C6: no failure of a light or heavy escalation ends the worker loop.
C6_EscalationFailureContained == pc # "dead"

\* both escalations of one iteration failed, and the next iteration has
\* already fetched and appended its packet
C6_Witness ==
    /\ pc = "gate"
    /\ light_outcome = "raised"
    /\ heavy_outcome = "raised"

\* C7: after a light escalation that failed, the ledger has an entry under
\* the packet's index.
C7_FailureRecorded ==
    (pc = "sleep" /\ light_outcome = "raised") => idx \in DOMAIN anomalies_detected

\* C8: a packet that lacks a field of one predicate but satisfies a later
\* predicate is judged anomalous: the evaluation returns False without
\* raising, and the caller's verdict for the packet is "not ok".
C8_MissingFieldSkipsPredicate ==
    (/\ gate_out # "none"
     /\ \E i \in 1..NumPredicates, j \in 1..NumPredicates :
           i < j /\ Lacks(i, gate_in) /\ Satisfies(j, gate_in))
    => (gate_out = "False" /\ ~CheckRules(gate_in, MD).rule_ok)

\* C9: the worker survives every packet whatever fields it lacks, and a packet
\* with no sensor field at all is judged healthy and is not escalated.
C9_SparseDataTolerated ==
    /\ pc # "dead"
    /\ (pc \in {"sleep", "heavy", "fetch"} /\ current_packet_index > 0
        /\ DOMAIN packet = {})
       => (rule_ok /\ light_calls = 0 /\ light_outcome = "none")

\* a packet with no sensor field was judged, and the next packet (a complete
\* one) has been fetched and appended after it
C9_Witness ==
    /\ pc = "gate"
    /\ DOMAIN packet = Fields
    /\ Len(rolling_buffer) >= 2
    /\ DOMAIN rolling_buffer[Len(rolling_buffer) - 1] = {}
    /\ rule_ok
    /\ light_outcome = "none"

\* C10: on a complete packet a predicate with a false condition does not
\* match, and a packet on which every predicate has a false condition is
\* healthy.
C10_AndOnly ==
    (gate_out # "none" /\ DOMAIN gate_in = Fields) =>
       /\ \A i \in 1..NumPredicates :
             SomeConditionFalse(i, gate_in) => Predicate(i, gate_in) # "match"
       /\ (\A i \in 1..NumPredicates : SomeConditionFalse(i, gate_in))
          => gate_out = "True"

\* a healthy complete packet on which every predicate has a true condition
\* next to its false one
C10_Witness ==
    /\ gate_out = "True"
    /\ DOMAIN gate_in = Fields
    /\ \A i \in 1..NumPredicates : Conditions(i, gate_in) = {TRUE, FALSE}

\* the scenario packet: cell delta 0.09 V, every other reading on its limit,
\* pack current c
ScenarioPkt(c) ==
    MkPacket(Fields, {"battery_cell_max_voltage_v", "battery_cell_min_voltage_v"}, c)

\* C11: on a complete packet the evaluation returns False exactly when one of
\* the six predicates holds and True otherwise; with a cell delta of 0.09 V
\* the packet is anomalous through predicate 1 at 121 A and healthy at 100 A.
C11_AnomalousIffSomePredicate ==
    (gate_out # "none" /\ DOMAIN gate_in = Fields) =>
       /\ gate_out = IF \E i \in 1..NumPredicates : Satisfies(i, gate_in)
                     THEN "False" ELSE "True"
       /\ gate_in = ScenarioPkt(CURRENT_LIMIT_1 + 1) =>
             (gate_out = "False" /\ BatteryImbalance(gate_in) = "match")
       /\ gate_in = ScenarioPkt(100) => gate_out = "True"

\* the scenario packet at 121 A, evaluated
C11_Witness ==
    /\ gate_in = ScenarioPkt(CURRENT_LIMIT_1 + 1)
    /\ gate_out = "False"

\* the readings of predicate i that sit exactly on the literal they are
\* compared with
OnThreshold(i, p) ==
    CASE i = 1 -> \/ p["battery_cell_max_voltage_v"] - p["battery_cell_min_voltage_v"]
                        = CELL_DELTA_LIMIT
                  \/ p["battery_pack_current_a"] = CURRENT_LIMIT_1
      [] i = 2 -> \/ p["motor_rpm"] = RPM_LIMIT
                  \/ p["inverter_temperature_c"] = INVERTER_TEMP_LIMIT
                  \/ p["battery_temp_rise_rate_c_per_min"] = RISE_RATE_LIMIT
      [] i = 3 -> \/ p["battery_pack_voltage_v"] = VOLTAGE_FLOOR
                  \/ p["battery_pack_current_a"] = CURRENT_LIMIT_2
      [] i = 4 -> \/ p["gps_vs_wheel_speed_delta"] = GPS_DELTA_LIMIT
                  \/ p["wheel_speed_variance_ratio"] = VARIANCE_LIMIT
      [] i = 5 -> \/ p["thermal_cycle_count"] = CYCLE_LIMIT
                  \/ p["battery_temperature_avg_c"] = TEMP_AVG_LIMIT
      [] OTHER -> \/ p["ambient_air_temperature_c"] = AMBIENT_LIMIT
                  \/ p["vehicle_load_estimated_kg"] = LOAD_LIMIT
                  \/ p["battery_pack_current_a"] = CURRENT_LIMIT_3

StreamWindow(n) ==
    LET m == IF n < BUFFER_SIZE_SECONDS THEN n ELSE BUFFER_SIZE_SECONDS
    IN  [k \in 1..m |->
            normalize_packet(packets[((n - m + k - 1) % Len(packets)) + 1])]

\* what reading the "data" entry of a payload gives now
PayloadContents(h) == IF h.live THEN buffer ELSE h.items

\* C14: the snapshot in the payload of the latest escalation still holds, in
\* every later state, the packets the buffer held when the escalation was
\* triggered, whatever has been appended or evicted since; and the payload's
\* buffer_size is the snapshot's length.
C14_SnapshotIsValueCopy ==
    payload.failure_second_index > 0 =>
       /\ PayloadContents(payload.data) = StreamWindow(payload.failure_second_index)
       /\ payload.buffer_size = Len(PayloadContents(payload.data))

\* a payload captured on a full buffer, and a packet appended (one evicted)
\* since, so that the live buffer no longer equals the snapshot
C14_Witness ==
    /\ payload.failure_second_index > BUFFER_SIZE_SECONDS
    /\ payload.failure_second_index < second_counter
    /\ stream_pc = "gate"
    /\ payload.buffer_size = BUFFER_SIZE_SECONDS
    /\ PayloadContents(payload.data) # buffer

\* the source position of the packet the worker is handling
SourcePosition == (current_packet_index - 1) % Len(processed_packets)

\* one step of the worker keeps the order of the loop body
StepInOrder ==
    /\ pc = "fetch"    => pc' = "append"
    /\ pc = "append"   => pc' = "gate"
    /\ pc = "gate"     => pc' = IF ruleGate(packet, MD) = "False"
                                THEN "escalate" ELSE "sleep"
    /\ pc = "escalate" => pc' = "sleep"
    /\ pc = "sleep"    => pc' = "heavy"
    /\ pc = "heavy"    => pc' = "fetch"

\* C15: the worker's steps follow the order normalise, append, gate, light
\* escalation (only after a verdict of anomalous), sleep, next packet; the
\* k-th packet handled is the k-th of the cyclic replay of the source; and
\* when the gate is reached the packet being judged is the newest element of
\* the buffer, every packet before it having been appended.
C15_StepOrder ==
    [][/\ StepInOrder
       /\ pc' \in {"append", "gate", "escalate", "sleep", "heavy"} =>
             /\ idx' = SourcePosition'
             /\ packet' = normalize_packet(processed_packets'[idx' + 1])
       /\ pc' \in {"gate", "escalate", "sleep", "heavy"} =>
             /\ Appended' = current_packet_index'
             /\ Len(rolling_buffer') >= 1
             /\ rolling_buffer'[Len(rolling_buffer')] = packet'
             /\ Len(rolling_buffer') =
                   IF current_packet_index' < BUFFER_MAXLEN
                   THEN current_packet_index' ELSE BUFFER_MAXLEN]_vars

\* the fourth packet of a four-packet source, anomalous, escalated and now
\* slept on, in the second cycle of the replay
C15_Witness ==
    /\ pc = "sleep"
    /\ Len(processed_packets) = 4
    /\ current_packet_index = 8
    /\ idx = 3
    /\ light_calls = 1

\* C16: no write to the ledger replaces an entry that is already there: every
\* anomalous occurrence gets a key of its own.
C16_LedgerAppendOnly == ledger_write # "overwrite"

\* an escalation is pending: the call to the agents is about to be made and
\* has not returned
EscalationPending ==
    \/ pc = "escalate"
    \/ pc = "heavy" /\ ShouldTriggerRca(Len(rolling_buffer), rca_capa_triggered)

\* C17: while an escalation is pending the worker can take the next packet,
\* append it or gate it.
C17_IngestionNotDelayed ==
    EscalationPending => ENABLED (Fetch \/ AppendPacket \/ EvaluateGate)

\* the ignition status in effect for the n-th packet of the stream loop: the
\* packet's own indicator, or else the one in effect for the packet before
\* it, starting from get_initial_ignition_status()
RECURSIVE LastIndicator(_)
LastIndicator(n) ==
    IF n = 0 THEN get_initial_ignition_status
    ELSE LET p == packets[((n - 1) % Len(packets)) + 1]
         IN  IF Has(p, "ignition_status") THEN p["ignition_status"]
             ELSE LastIndicator(n - 1)

\* the stream loop has slept on its current packet
Slept == stream_pc = "fetch" /\ second_counter > 0

C20_CyclicReplayNeverExhausts ==
    /\ [](stream_pc \in {"append", "gate", "escalate", "sleep"} \/ Slept =>
            /\ stream_packet =
                  normalize_packet(packets[((second_counter - 1) % Len(packets)) + 1])
            /\ stream_idx = second_counter % Len(packets))
    /\ [][second_counter' \in {second_counter, second_counter + 1}]_vars
    /\ (Len(packets) >= 1) ~> (second_counter = MaxIter)

\* the replay of a three-packet source has wrapped: the fourth packet handled
\* is source packet 0 again
C20_Witness ==
    /\ Len(packets) = 3
    /\ second_counter = 4
    /\ stream_packet = normalize_packet(packets[1])
    /\ stream_pc = "gate"

\* C21: the escalation of one anomaly runs an agent at most twice (the first
\* run and one more after it failed), an escalation that failed is recorded
\* in the ledger under the packet's index, and the packet was fetched and
\* appended once.
C21_RetryOnceThenRecorded ==
    (pc = "sleep" /\ light_calls = 1) =>
       /\ agent_calls <= 2
       /\ Appended = current_packet_index
       /\ light_outcome = "raised" => idx \in DOMAIN anomalies_detected

\* C22: a list element that is no mapping is skipped: it is never put into
\* the rolling buffer and never handed to the gate.
C22_MalformedSkipped ==
    /\ \A k \in 1..Len(rolling_buffer) : IsMapping(rolling_buffer[k])
    /\ pc \in {"gate", "escalate", "sleep", "heavy"} => IsMapping(packet)

\* C23: with the empty manufacturing database the evaluation of a packet
\* never returns False.
C23_EmptyThresholdsAlwaysHealthy ==
    (gate_out # "none" /\ DOMAIN MD = {}) => gate_out # "False"

\* the smaller of two numbers
Min(a, b) == IF a < b THEN a ELSE b

\* C24: at the end of iteration n the buffer holds min(n, 300) packets and
\* its length never goes down; the worker has made the heavy escalation
\* exactly once if n >= 20 and not at all before, the one call being made at
\* the end of iteration 20; and the latch, once set, stays set.
C24_HeavyFiresOnceAtTwenty ==
    /\ [](pc = "fetch" =>
            /\ Len(rolling_buffer) = Min(current_packet_index, BUFFER_MAXLEN)
            /\ heavy_count = IF current_packet_index >= RCA_TRIGGER_SIZE
                             THEN 1 ELSE 0
            /\ rca_capa_triggered <=> current_packet_index >= RCA_TRIGGER_SIZE)
    /\ [][/\ Len(rolling_buffer') >= Len(rolling_buffer)
          /\ rca_capa_triggered => rca_capa_triggered'
          /\ heavy_count' # heavy_count =>
                (pc = "heavy" /\ current_packet_index = RCA_TRIGGER_SIZE)]_vars

\* the whole bounded run done: buffer full, one heavy escalation, latch set
C24_Witness ==
    /\ pc = "fetch"
    /\ current_packet_index = MaxIter
    /\ Len(rolling_buffer) = BUFFER_MAXLEN
    /\ heavy_count = 1
    /\ rca_capa_triggered

\* no packet of the source is judged anomalous
AllHealthy ==
    \A k \in 1..Len(processed_packets) :
       ruleGate(normalize_packet(processed_packets[k]), MD) # "False"

\* C25: whether the end-of-iteration check makes the heavy escalation is
\* decided by the occupancy and the latch alone; over a source without any
\* anomalous packet, where no light escalation is ever made, it is made at
\* the end of iteration 20 all the same.
C25_HeavyIgnoresVerdicts ==
    /\ [][pc = "heavy" =>
            ((heavy_count' = heavy_count + 1)
               <=> (Len(rolling_buffer) >= RCA_TRIGGER_SIZE /\ ~rca_capa_triggered))]_vars
    /\ [](AllHealthy =>
            /\ pc # "escalate"
            /\ light_calls = 0
            /\ (pc = "fetch" /\ current_packet_index >= RCA_TRIGGER_SIZE)
                  => heavy_count = 1)

\* twenty healthy packets handled, nothing in the ledger, the heavy
\* escalation made
C25_Witness ==
    /\ processed_packets = <<HealthyPkt>>
    /\ pc = "fetch"
    /\ current_packet_index = RCA_TRIGGER_SIZE
    /\ DOMAIN anomalies_detected = {}
    /\ heavy_count = 1

\* C26: the snapshot in the payload of an escalation is not empty, its last
\* element is the packet that was judged anomalous in that second, and its
\* length is min(packets handled so far, 300).
C26_SnapshotEndsWithTrigger ==
    payload.failure_second_index > 0 =>
       LET n == payload.failure_second_index
           items == PayloadContents(payload.data)
       IN  /\ Len(items) >= 1
           /\ items[Len(items)] =
                 normalize_packet(packets[((n - 1) % Len(packets)) + 1])
           /\ ruleGate(items[Len(items)], MD) = "False"
           /\ Len(items) = Min(n, BUFFER_SIZE_SECONDS)
           /\ payload.buffer_size = Len(items)

\* an escalation just made on a buffer that has been full for a while
C26_Witness ==
    /\ stream_pc = "sleep"
    /\ payload.failure_second_index = second_counter
    /\ second_counter > BUFFER_SIZE_SECONDS + 1
    /\ buffer[Len(buffer)] = stream_packet

\* C27: the ledger changes only in the light escalation of a packet judged
\* anomalous, and only when the call returned and the severity summary
\* carried a warning; the key written is the packet's source index.  So every
\* key is the index of an anomalous source packet and there are never more
\* keys than source packets.
C27_LedgerOnlyWarnedAnomalies ==
    /\ [](\A k \in DOMAIN anomalies_detected :
             /\ k \in 0..(Len(processed_packets) - 1)
             /\ ruleGate(normalize_packet(processed_packets[k + 1]), MD) = "False")
    /\ [](Cardinality(DOMAIN anomalies_detected) <= Len(processed_packets))
    /\ [][anomalies_detected' # anomalies_detected =>
            /\ pc = "escalate"
            /\ ruleGate(packet, MD) = "False"
            /\ light_outcome' = "warning"
            /\ DOMAIN anomalies_detected' = DOMAIN anomalies_detected \cup {idx}]_vars

\* a source of a healthy packet, an anomalous one and one without fields,
\* replayed more than once: only the anomalous one has an entry
C27_Witness ==
    /\ Len(processed_packets) = 3
    /\ current_packet_index > 6
    /\ DOMAIN anomalies_detected = {1}

\* C28: a POST /rca_capa changes neither the latch, nor the buffer, nor the
\* ledger, nor the packet index, nor the count of automatic heavy
\* escalations; it answers 503 without calling route_rca_capa exactly when the
\* stream is not active or no packets are loaded; and the automatic heavy
\* escalation is made once, at the end of iteration 20, whatever requests came
\* in.
C28_ManualTriggerFrame ==
    /\ [][manual_requests' # manual_requests =>
            /\ UNCHANGED <<rca_capa_triggered, rolling_buffer, anomalies_detected,
                           current_packet_index, heavy_count>>
            /\ (manual_response' = "503")
                  <=> (~stream_active \/ processed_packets = <<>>)
            /\ manual_calls' =
                  IF manual_response' = "503" THEN manual_calls
                  ELSE manual_calls + 1]_vars
    /\ [](pc = "fetch" =>
            /\ heavy_count = IF current_packet_index >= RCA_TRIGGER_SIZE
                             THEN 1 ELSE 0
            /\ rca_capa_triggered <=> current_packet_index >= RCA_TRIGGER_SIZE)

\* a manual trigger that failed while occupancy was below 20, and the
\* automatic escalation made afterwards
C28_Witness ==
    /\ manual_response = "500"
    /\ manual_calls = 1
    /\ ~rca_capa_triggered
    /\ pc = "heavy"
    /\ current_packet_index = RCA_TRIGGER_SIZE

\* C29: a heavy escalation that failed leaves the latch set, the check after
\* it makes no call, and the worker never makes a second heavy escalation.
C29_LatchSurvivesFailure ==
    /\ [](heavy_outcome = "raised" => rca_capa_triggered)
    /\ [][(pc = "heavy" /\ heavy_outcome = "raised") =>
            (heavy_count' = heavy_count /\ rca_capa_triggered')]_vars
    /\ [](heavy_count <= 1)

\* the heavy escalation failed at the end of iteration 20 and the worker is
\* in iteration 21 with the latch set
C29_Witness ==
    /\ heavy_outcome = "raised"
    /\ rca_capa_triggered
    /\ pc = "sleep"
    /\ current_packet_index = RCA_TRIGGER_SIZE + 1

====
